---- MODULE Spec2Model ----
(***************************************************************************)
(* Model of the deet debugger (proj1/deet): the command loop of            *)
(* Debugger::run, the Inferior operations it calls (new, wait, cont, kill, *)
(* write_byte, print_backtrace, print_stop) and the traced process and     *)
(* symbol table they act on.  WriteByteSpec applies Inferior::write_byte   *)
(* on its own to every byte of a word, and DedupSpec runs the loop of      *)
(* dedup (week1/part-2-warmup) on every short vector.  ProxySpec is the    *)
(* load balancer balancebeam (proj2): the connection handler, the active   *)
(* health check and the reset of the request counters.  MapSpec is         *)
(* parallel_map (week6): the main thread, its workers and the channels.    *)
(***************************************************************************)
EXTENDS Integers, Sequences, FiniteSets, TLC

(***************************************************************************)
(* Bounds of the model.                                                    *)
(***************************************************************************)
\* longest list of recorded breakpoints (Debugger.breaks) the model explores
MaxBreaks == 2
\* number of operating-system processes the model lets run commands create
MaxProcs == 2
\* number of printed frames the model keeps of one backtrace
MaxFrames == 4
\* number of calls of write_byte WriteByteSpec makes in a row
MaxPokes == 2
\* longest vector DedupSpec passes to dedup
MaxLen == 6
\* number of requests ProxySpec lets clients send in all
MaxRequests == 3
\* longest input vector MapSpec passes to parallel_map
MaxInput == 3
\* largest num_threads MapSpec passes to parallel_map
MaxThreads == 2

(***************************************************************************)
(* Options, bytes and 64-bit words.  A u64 is kept as its eight bytes,     *)
(* least significant first, so that no arithmetic leaves TLC's integers.   *)
(***************************************************************************)
None == << >>
Some(x) == << x >>
IsSome(o) == o # << >>
Unwrap(o) == o[1]

\* size_of::<u64>()
WordSize == 8
\* the breakpoint opcode written by Inferior::new and the BreakPoint arm
TrapOp == 204

\* bit i of byte b, given p = 2^i
Bit(b, p) == (b \div p) % 2

\* b1 & b2 on two bytes
ByteAnd(b1, b2) ==
    Bit(b1, 1) * Bit(b2, 1) + 2 * (Bit(b1, 2) * Bit(b2, 2))
    + 4 * (Bit(b1, 4) * Bit(b2, 4)) + 8 * (Bit(b1, 8) * Bit(b2, 8))
    + 16 * (Bit(b1, 16) * Bit(b2, 16)) + 32 * (Bit(b1, 32) * Bit(b2, 32))
    + 64 * (Bit(b1, 64) * Bit(b2, 64)) + 128 * (Bit(b1, 128) * Bit(b2, 128))

\* b1 | b2 on two bytes: a | b = a + b - (a & b)
ByteOr(b1, b2) == b1 + b2 - ByteAnd(b1, b2)

WordAnd(w1, w2) == [i \in 1..WordSize |-> ByteAnd(w1[i], w2[i])]
WordOr(w1, w2) == [i \in 1..WordSize |-> ByteOr(w1[i], w2[i])]
WordNot(w) == [i \in 1..WordSize |-> 255 - w[i]]
\* w >> 8 * n
WordShr(w, n) == [i \in 1..WordSize |-> IF i + n <= WordSize THEN w[i + n] ELSE 0]
\* w << 8 * n
WordShl(w, n) == [i \in 1..WordSize |-> IF i - n >= 1 THEN w[i - n] ELSE 0]
\* a value below 2^16 as a u64
ToWord(n) == [i \in 1..WordSize |-> IF i = 1 THEN n % 256
                                    ELSE IF i = 2 THEN (n \div 256) % 256 ELSE 0]
\* `word as usize` for the addresses of the model; a word with a byte set above
\* the second names no address of the model's address space
FarAddr == 2 ^ 16
ToAddr(w) == IF \A i \in 3..WordSize : w[i] = 0 THEN w[1] + 256 * w[2] ELSE FarAddr

\* fn align_addr_to_word: addr & -8, which clears the three low bits
align_addr_to_word(addr) == addr - (addr % WordSize)

(***************************************************************************)
(* The target executable and the address space of a traced process.        *)
(* Text occupies the words at 16 and 24, the stack the words at 64..88;    *)
(* every other address is unmapped, and ptrace::read / ptrace::write fail  *)
(* there.                                                                  *)
(***************************************************************************)
TextWords == {16, 24}
StackWords == {64, 72, 80, 88}
MappedWords == TextWords \cup StackWords
TextAddrs == 16..31

\* the bytes of the unmodified binary: 0x55 (push rbp) opens a function,
\* 0xc3 (ret) closes it, 0x90 (nop) fills the rest
BinaryByte(a) == IF a % 4 = 0 THEN 85 ELSE IF a % 4 = 3 THEN 195 ELSE 144
BinaryWord(w) == [i \in 1..WordSize |-> BinaryByte(w + i - 1)]

\* the byte at address a of memory m (a mapped)
ByteAt(m, a) == m[align_addr_to_word(a)][a - align_addr_to_word(a) + 1]

\* where the process stands after exec, before any instruction of it has run
EntryRip == 28

(***************************************************************************)
(* Stacks the process can be found with when it stops: the frame base      *)
(* register and the four stack words.  At a frame base fb the word at fb   *)
(* is the caller's frame base and the word at fb + 8 the return address.   *)
(***************************************************************************)
StackOf(w64, w72, w80, w88) ==
    (64 :> ToWord(w64)) @@ (72 :> ToWord(w72)) @@ (80 :> ToWord(w80)) @@ (88 :> ToWord(w88))

\* two frames below the current one: the caller (in foo, at 22) and main (17)
ImgDeep == [rbp |-> 64, stack |-> StackOf(80, 22, 0, 17)]
\* one frame below the current one: main
ImgShallow == [rbp |-> 80, stack |-> StackOf(80, 22, 0, 17)]
\* a frame whose saved frame base is its own: the chain never reaches main
ImgCyclic == [rbp |-> 64, stack |-> StackOf(64, 22, 0, 17)]
\* a return address (30) that no function of the symbol table covers
ImgNoSymbol == [rbp |-> 64, stack |-> StackOf(80, 30, 0, 17)]
\* a frame base register that points to no mapped memory
ImgUnmapped == [rbp |-> 0, stack |-> StackOf(80, 22, 0, 17)]
StackImages == {ImgDeep, ImgShallow, ImgCyclic, ImgNoSymbol, ImgUnmapped}

\* the memory of a process right after exec
FreshMem == [w \in MappedWords |-> IF w \in TextWords THEN BinaryWord(w)
                                   ELSE ImgUnmapped.stack[w]]
\* memory m with its stack replaced by that of img
WithStack(m, img) == [w \in MappedWords |-> IF w \in StackWords THEN img.stack[w] ELSE m[w]]

(***************************************************************************)
(* The symbol table (DwarfData).                                           *)
(***************************************************************************)
\* DwarfData::get_function_from_addr
get_function_from_addr(a) ==
    IF a \in 16..19 THEN Some("main")
    ELSE IF a \in 20..23 THEN Some("foo")
    ELSE IF a \in 24..27 THEN Some("bar")
    ELSE None

\* DwarfData::get_line_from_addr
get_line_from_addr(a) == IF a \in 16..27 THEN Some(a - 10) ELSE None

\* DwarfData::get_addr_for_line(None, line)
get_addr_for_line(line) ==
    IF line = 10 THEN Some(20) ELSE IF line = 14 THEN Some(24) ELSE None

\* DwarfData::get_addr_for_function(None, name); a name is a sequence of characters
get_addr_for_function(name) ==
    IF name = <<"f", "o", "o">> THEN Some(20)
    ELSE IF name = <<"b", "a", "r">> THEN Some(24)
    ELSE None

(***************************************************************************)
(* Parsing of a breakpoint argument.  A string is a sequence of            *)
(* one-character strings.                                                  *)
(***************************************************************************)
HexDigits == <<"0", "1", "2", "3", "4", "5", "6", "7", "8", "9",
               "a", "b", "c", "d", "e", "f">>
UpperHex == <<"A", "B", "C", "D", "E", "F">>

\* char::to_digit(radix): the digit's value, or None
to_digit(c, radix) ==
    LET lower == {i \in 1..16 : HexDigits[i] = c}
        upper == {i \in 1..6 : UpperHex[i] = c}
        v == IF lower # {} THEN (CHOOSE i \in lower : TRUE) - 1
             ELSE IF upper # {} THEN (CHOOSE i \in upper : TRUE) + 9
             ELSE 16
    IN IF v < radix THEN Some(v) ELSE None

\* str::to_lowercase, one character
to_lowercase(c) ==
    IF c = "X" THEN "x"
    ELSE IF \E i \in 1..6 : UpperHex[i] = c
         THEN HexDigits[10 + (CHOOSE i \in 1..6 : UpperHex[i] = c)]
         ELSE c

\* u64::from_str_radix and usize::from_str_radix: an optional "+", then one or
\* more digits of the radix; Some(value) or None.  (The arguments of the model
\* are too short to overflow 64 bits.)
from_str_radix(src, radix) ==
    LET digits == IF Len(src) > 0 /\ src[1] = "+" THEN Tail(src) ELSE src
        RECURSIVE value(_, _)
        value(i, acc) ==
            IF i > Len(digits) THEN Some(acc)
            ELSE IF to_digit(digits[i], radix) = None THEN None
            ELSE value(i + 1, acc * radix + Unwrap(to_digit(digits[i], radix)))
    IN IF Len(src) = 0 THEN None
       ELSE IF Len(digits) = 0 THEN None
       ELSE IF src[1] = "-" THEN None
       ELSE value(1, 0)

\* parse_address with a failed parse taken for address 0 (unwrap_or(0))
parse_address_or_zero(addr) ==
    LET addr_without_0x ==
            IF Len(addr) >= 2 /\ to_lowercase(addr[1]) = "0" /\ to_lowercase(addr[2]) = "x"
            THEN SubSeq(addr, 3, Len(addr))
            ELSE addr
    IN IF IsSome(from_str_radix(addr_without_0x, 16))
       THEN from_str_radix(addr_without_0x, 16) ELSE Some(0)

\* fn parse_address
parse_address(addr) ==
    LET addr_without_0x ==
            IF Len(addr) >= 2 /\ to_lowercase(addr[1]) = "0" /\ to_lowercase(addr[2]) = "x"
            THEN SubSeq(addr, 3, Len(addr))
            ELSE addr
    IN from_str_radix(addr_without_0x, 16)

(***************************************************************************)
(* Inferior::write_byte.  alive: the process of the Inferior still exists  *)
(* (ptrace fails on a process that is gone).  The result holds ok (FALSE   *)
(* for Err), the byte displaced, the memory afterwards and the ptrace      *)
(* calls made.                                                             *)
(***************************************************************************)
\* write_byte that merges the new byte into the word without clearing the
\* old one first
write_byte_unmasked(alive, m, addr, val) ==
    LET aligned_addr == align_addr_to_word(addr)
        byte_offset == addr - aligned_addr
    IN IF ~alive \/ aligned_addr \notin MappedWords
       THEN [ok |-> FALSE, orig |-> 0, mem |-> m, ops |-> << <<"read", aligned_addr>> >>]
       ELSE LET word == m[aligned_addr]
                orig_byte == WordAnd(WordShr(word, byte_offset), ToWord(255))
                updated_word == WordOr(word, WordShl(ToWord(val), byte_offset))
            IN [ok |-> TRUE, orig |-> orig_byte[1],
                mem |-> [m EXCEPT ![aligned_addr] = updated_word],
                ops |-> << <<"read", aligned_addr>>, <<"write", aligned_addr, updated_word>> >>]

write_byte(alive, m, addr, val) ==
    LET aligned_addr == align_addr_to_word(addr)
        byte_offset == addr - aligned_addr
    IN IF ~alive \/ aligned_addr \notin MappedWords
       THEN [ok |-> FALSE, orig |-> 0, mem |-> m, ops |-> << <<"read", aligned_addr>> >>]
       ELSE LET word == m[aligned_addr]
                orig_byte == WordAnd(WordShr(word, byte_offset), ToWord(255))
                masked_word == WordAnd(word, WordNot(WordShl(ToWord(255), byte_offset)))
                updated_word == WordOr(masked_word, WordShl(ToWord(val), byte_offset))
            IN [ok |-> TRUE, orig |-> orig_byte[1],
                mem |-> [m EXCEPT ![aligned_addr] = updated_word],
                ops |-> << <<"read", aligned_addr>>, <<"write", aligned_addr, updated_word>> >>]

(***************************************************************************)
(* What waitpid reports of the traced process.  An event holds the raw     *)
(* kind, the signal or exit code, and the registers and memory the process *)
(* is left with.                                                           *)
(***************************************************************************)
Event(kind, sig, code, r, b, m) ==
    [kind |-> kind, sig |-> sig, code |-> code, rip |-> r, rbp |-> b, mem |-> m]

\* the addresses of the text whose byte is the trap opcode
TrapAddrs(m) == {a \in TextAddrs : ByteAt(m, a) = TrapOp}
\* where a signal other than a trap may find the process
SignalRips == {17, 29}

\* the ends a process can come to whatever it executes: it exits, a signal
\* kills it, or waitpid reports a status that is none of stopped, exited, signaled
Endings(r, b, m) ==
    { Event("Exited", "", 0, r, b, m),
      Event("Signaled", "SIGKILL", 0, r, b, m),
      Event("Other", "", 0, r, b, m) }

\* after ptrace::step at rip r: the one instruction at r has run.  The trap
\* opcode stops the process one byte further; any other instruction ends in
\* the single-step trap at the next instruction; a signal may stop the
\* process before the instruction completes
AfterStep(r, b, m) ==
    (IF r \in TextAddrs THEN {Event("Stopped", "SIGTRAP", 0, r + 1, b, m)} ELSE {})
    \cup {Event("Stopped", "SIGSEGV", 0, r, b, m)}
    \cup Endings(r, b, m)

\* after ptrace::cont at rip r: the process runs until it executes a trap
\* opcode (the one at r when there is one), a signal stops it, or it ends.
\* A signal finds the process in main or outside every function, where a
\* backtrace reads no stack: one stack stands for all there.  A signal that
\* is delivered as the process is resumed stops it where it stood, at r,
\* before any instruction has run
AfterCont(r, b, m) ==
    LET traps == IF r \in TrapAddrs(m) THEN {r} ELSE TrapAddrs(m)
    IN {Event("Stopped", "SIGTRAP", 0, a + 1, img.rbp, WithStack(m, img)) :
            a \in traps, img \in StackImages}
       \cup {Event("Stopped", "SIGSEGV", 0, a, ImgShallow.rbp, WithStack(m, ImgShallow)) :
            a \in SignalRips}
       \cup {Event("Stopped", "SIGSEGV", 0, r, b, m)}
       \cup Endings(r, b, m)

(***************************************************************************)
(* Inferior::wait on an event: Ok(Status), or the panic of the last arm.   *)
(***************************************************************************)
NoStatus == [kind |-> "", sig |-> "", code |-> 0, rip |-> 0]
wait(ev) ==
    IF ev.kind = "Exited"
    THEN [res |-> "Ok", status |-> [kind |-> "Exited", sig |-> "", code |-> ev.code, rip |-> 0]]
    ELSE IF ev.kind = "Signaled"
    THEN [res |-> "Ok", status |-> [kind |-> "Signaled", sig |-> ev.sig, code |-> 0, rip |-> 0]]
    ELSE IF ev.kind = "Stopped"
    THEN [res |-> "Ok", status |-> [kind |-> "Stopped", sig |-> ev.sig, code |-> 0, rip |-> ev.rip]]
    ELSE [res |-> "Panic", status |-> NoStatus]

(***************************************************************************)
(* Inferior::cont.  Each result holds res (Ok, Err, or Panic for the panic *)
(* inside wait), the status, the process afterwards (alive, mem, rip,      *)
(* rbp), the process operations made, the installed breakpoint addresses   *)
(* whose byte was not the trap opcode at the moment of ptrace::cont        *)
(* (resumed, None when the process was not resumed) and the address        *)
(* stepped over with the step's status (step, None when no step was made). *)
(***************************************************************************)
Outcome(res, status, alive, m, r, b, ops, resumed, step) ==
    [res |-> res, status |-> status, alive |-> alive, mem |-> m, rip |-> r, rbp |-> b,
     ops |-> ops, resumed |-> resumed, step |-> step]

\* the process after the event ev was waited for
Waited(ev, ops, resumed, step) ==
    Outcome(wait(ev).res, wait(ev).status, ev.kind = "Stopped", ev.mem, ev.rip, ev.rbp,
            ops \o << <<"wait">> >>, resumed, step)

\* the addresses of bp_map whose byte in m is not the trap opcode
Unarmed(bp_map, m) == {a \in DOMAIN bp_map : ByteAt(m, a) # TrapOp}

\* lines 103-104: ptrace::cont, then wait
Resume(bp_map, m, r, b, ops, step) ==
    {Waited(ev, ops \o << <<"cont">> >>, Some(Unarmed(bp_map, m)), step) :
        ev \in AfterCont(r, b, m)}

\* StepOver that writes the trap opcode back after every status of the step,
\* also when the process is gone
StepOverRearmAlways(bp_map, m, rip, b, ops) ==
    LET restore == write_byte(TRUE, m, rip - 1, bp_map[rip - 1])
        ops1 == ops \o restore.ops \o << <<"setregs", rip - 1>>, <<"step">> >>
        after(ev) ==
            LET step == Some([addr |-> rip - 1, kind |-> ev.kind, sig |-> ev.sig])
                rearm == write_byte(ev.kind = "Stopped", ev.mem, rip - 1, TrapOp)
            IN IF wait(ev).res = "Ok"
               THEN IF rearm.ok
                    THEN Resume(bp_map, rearm.mem, ev.rip, ev.rbp,
                                ops1 \o << <<"wait">> >> \o rearm.ops, step)
                    ELSE {Outcome("Err", NoStatus, ev.kind = "Stopped", ev.mem, ev.rip, ev.rbp,
                                  ops1 \o << <<"wait">> >> \o rearm.ops, None, step)}
               ELSE {Waited(ev, ops1, None, step)}
    IN IF ~restore.ok
       THEN {Outcome("Err", NoStatus, TRUE, m, rip, b, ops \o restore.ops, None, None)}
       ELSE UNION {after(ev) : ev \in AfterStep(rip - 1, b, restore.mem)}

\* lines 92-101: the step over the breakpoint at rip - 1
StepOver(bp_map, m, rip, b, ops) ==
    LET restore == write_byte(TRUE, m, rip - 1, bp_map[rip - 1])
        ops1 == ops \o restore.ops \o << <<"setregs", rip - 1>>, <<"step">> >>
        after(ev) ==
            LET step == Some([addr |-> rip - 1, kind |-> ev.kind, sig |-> ev.sig])
                rearm == write_byte(TRUE, ev.mem, rip - 1, TrapOp)
            IN IF ev.kind = "Stopped" /\ ev.sig = "SIGTRAP"
               THEN IF rearm.ok
                    THEN Resume(bp_map, rearm.mem, ev.rip, ev.rbp,
                                ops1 \o << <<"wait">> >> \o rearm.ops, step)
                    ELSE {Outcome("Err", NoStatus, TRUE, ev.mem, ev.rip, ev.rbp,
                                  ops1 \o << <<"wait">> >> \o rearm.ops, None, step)}
               ELSE {Waited(ev, ops1, None, step)}
    IN IF ~restore.ok
       THEN {Outcome("Err", NoStatus, TRUE, m, rip, b, ops \o restore.ops, None, None)}
       ELSE UNION {after(ev) : ev \in AfterStep(rip - 1, b, restore.mem)}

\* cont that moves the program counter back one byte before every resume,
\* whether or not a breakpoint was stepped over
cont_rewinding(alive, bp_map, m, rip, b) ==
    IF ~alive
    THEN {Outcome("Err", NoStatus, FALSE, m, rip, b, << <<"getregs">> >>, None, None)}
    ELSE IF (rip - 1) \in DOMAIN bp_map
    THEN StepOver(bp_map, m, rip, b, << <<"getregs">> >>)
    ELSE Resume(bp_map, m, rip - 1, b, << <<"getregs">>, <<"setregs", rip - 1>> >>, None)

cont(alive, bp_map, m, rip, b) ==
    IF ~alive
    THEN {Outcome("Err", NoStatus, FALSE, m, rip, b, << <<"getregs">> >>, None, None)}
    ELSE IF (rip - 1) \in DOMAIN bp_map
    THEN StepOver(bp_map, m, rip, b, << <<"getregs">> >>)
    ELSE Resume(bp_map, m, rip, b, << <<"getregs">> >>, None)

(***************************************************************************)
(* Inferior::kill on a process that is alive or gone.  Child::kill fails   *)
(* on a process already reaped, and expect panics.                         *)
(***************************************************************************)
kill(alive) ==
    IF alive
    THEN [res |-> "Ok", status |-> [kind |-> "Signaled", sig |-> "SIGKILL", code |-> 0, rip |-> 0],
          ops |-> << <<"kill">>, <<"wait">> >>]
    ELSE [res |-> "Panic", status |-> NoStatus, ops |-> << <<"kill">> >>]

(***************************************************************************)
(* Inferior::new.  Install is the loop of lines 58-61 over breaks from     *)
(* index i on.                                                             *)
(***************************************************************************)
\* Install that patches nothing and leaves the breakpoints to be installed
\* later
InstallNothing(breaks, i, m, bp_map, ops) ==
    [ok |-> TRUE, mem |-> m, bp_map |-> bp_map, ops |-> ops]

RECURSIVE Install(_, _, _, _, _)
Install(breaks, i, m, bp_map, ops) ==
    IF i > Len(breaks) THEN [ok |-> TRUE, mem |-> m, bp_map |-> bp_map, ops |-> ops]
    ELSE LET w == write_byte(TRUE, m, breaks[i], TrapOp)
         IN IF ~w.ok THEN [ok |-> FALSE, mem |-> w.mem, bp_map |-> bp_map, ops |-> ops \o w.ops]
            ELSE Install(breaks, i + 1, w.mem, (breaks[i] :> w.orig) @@ bp_map, ops \o w.ops)

\* what the first wait of a new process can report
AfterExec ==
    {Event("Stopped", "SIGTRAP", 0, EntryRip, 0, FreshMem),
     Event("Stopped", "SIGSEGV", 0, EntryRip, 0, FreshMem)}
    \cup Endings(EntryRip, 0, FreshMem)

\* Each result holds res (Some, None, or Panic for the panic inside wait), the
\* Inferior's bp_map, whether a process was created and whether it is left
\* alive, its memory and registers, and the process operations made.
\* Spawned that hands out the Inferior with the map it was constructed with,
\* HashMap::new()
SpawnedWithoutMap(res, bp_map, created, alive, m, ops) ==
    [res |-> res, bp_map |-> << >>, created |-> created, alive |-> alive,
     mem |-> m, rip |-> EntryRip, rbp |-> 0, ops |-> ops]

Spawned(res, bp_map, created, alive, m, ops) ==
    [res |-> res, bp_map |-> bp_map, created |-> created, alive |-> alive,
     mem |-> m, rip |-> EntryRip, rbp |-> 0, ops |-> ops]

new(breaks) ==
    {Spawned("None", << >>, FALSE, FALSE, FreshMem, << <<"spawn">> >>)}
    \cup
    { LET first == << <<"spawn">>, <<"wait">> >>
          inst == Install(breaks, 1, ev.mem, << >>, first)
      IN IF wait(ev).res = "Panic"
         THEN Spawned("Panic", << >>, TRUE, FALSE, ev.mem, first)
         ELSE IF ev.kind = "Stopped" /\ ev.sig = "SIGTRAP"
         THEN IF inst.ok
              THEN Spawned("Some", inst.bp_map, TRUE, TRUE, inst.mem, inst.ops)
              ELSE Spawned("None", << >>, TRUE, TRUE, inst.mem, inst.ops)
         ELSE Spawned("None", << >>, TRUE, ev.kind = "Stopped", ev.mem, first)
      : ev \in AfterExec }

\* ptrace::read of the word at address a: None where a byte of it is unmapped
read(m, a) ==
    IF \A i \in 0..(WordSize - 1) : align_addr_to_word(a + i) \in MappedWords
    THEN Some([i \in 1..WordSize |-> ByteAt(m, a + i - 1)])
    ELSE None

(***************************************************************************)
(* Resolution of a breakpoint argument, lines 126-156 of Debugger::run:    *)
(* the address (None when unresolved), the lookups made and the message    *)
(* printed.                                                                *)
(***************************************************************************)
Resolved(addr, lookups, msg) == [addr |-> addr, lookups |-> lookups, msg |-> msg]

\* lines 147-152: the argument is looked up as a function name
resolve_function(arg) ==
    IF IsSome(get_addr_for_function(arg))
    THEN Resolved(get_addr_for_function(arg), << "function" >>, << >>)
    ELSE Resolved(None, << "function" >>, << "No address found for function" >>)

\* resolve_line that tries the argument as a function name when the line has
\* no address
resolve_line_then_function(arg, line_number) ==
    IF IsSome(get_addr_for_line(line_number))
    THEN Resolved(get_addr_for_line(line_number), << "line" >>, << >>)
    ELSE [resolve_function(arg) EXCEPT !.lookups = << "line", "function" >>]

\* lines 139-144: the argument parsed as the decimal line_number
resolve_line(arg, line_number) ==
    IF IsSome(get_addr_for_line(line_number))
    THEN Resolved(get_addr_for_line(line_number), << "line" >>, << >>)
    ELSE Resolved(None, << "line" >>, << "No address found for line" >>)

resolve(arg) ==
    IF Len(arg) > 0 /\ arg[1] = "*"
    THEN IF IsSome(parse_address(Tail(arg)))
         THEN Resolved(parse_address(Tail(arg)), << "raw" >>, << >>)
         ELSE Resolved(None, << "raw" >>, << "Fail to parse address" >>)
    ELSE IF IsSome(from_str_radix(arg, 10))
    THEN resolve_line(arg, Unwrap(from_str_radix(arg, 10)))
    ELSE resolve_function(arg)

(***************************************************************************)
(* The state of the session.                                               *)
(***************************************************************************)
VARIABLES
    cmd,       \* the command dispatched last: <<"Run">>, <<"Continue">>,
               \* <<"BackTrace">>, <<"Quit">> or <<"BreakPoint", arg>>
    pc,        \* "prompt": get_next_command; "bt": inside the loop of
               \* print_backtrace; "done": run returned; "panicked"
    inferior,  \* Debugger.inferior: None or Some([pid, bp_map])
    breaks,    \* Debugger.breaks
    procs,     \* the processes of the operating system: "unborn", "stopped"
               \* (alive, stopped under trace) or "reaped"
    mem,       \* memory of the process of the current Inferior (the image of
               \* a fresh process while that process is gone)
    rip,       \* its program counter
    rbp,       \* its frame base register
    out,       \* the messages the last command printed
    ops,       \* the process operations the last command made
    status,    \* Some([st, pid]): the status the last command obtained from
               \* cont on the Inferior of that pid; None when it obtained none
    resumed,   \* Some(the installed breakpoints not armed at the last
               \* command's ptrace::cont), None when it resumed no process
    step,      \* Some([addr, kind, sig]): the address the last command
               \* stepped over and what the step ended in; None without step
    lookups,   \* the resolution methods the last command used
    panic,     \* the call whose failure ended the session, "" when none
    btRip,     \* print_backtrace: rip
    btRbp,     \* print_backtrace: rbp
    frames,    \* the frames printed by the last backtrace
    poke,      \* WriteByteSpec: the calls of write_byte made, each as
               \* [addr, val, before, res] with the memory found and the result
    vec,       \* dedup: v
    seen,      \* dedup: seen
    cnt,       \* dedup: cnt
    idx,       \* dedup: i, the next value of the range 0..v.len()
    given,     \* dedup: the vector as it was passed in
    len,       \* dedup: v.len() as evaluated when the loop was entered
    at,        \* dedup: "idle" (not called), "loop", "done" (returned) or
               \* "panic" (index out of bounds, or i - cnt below zero)
    max_requests_per_minute,  \* balancebeam: the option of that name
    upstream_alives,   \* ProxyState.upstream_alives: <<alive count, flags>>
    requests_counter,  \* ProxyState.requests_counter: client IP -> count
    alives_lock,       \* the RwLock of upstream_alives: "free", or "read"
                       \* while pick_known_alive_upstream holds it
    hpc,               \* where the main task stands: "idle" (proxy not
                       \* started), "accept", "pick", "picking", "connect",
                       \* "mark", "read", "limit", "limited", "forward",
                       \* "response", "panicked" (the main task panicked,
                       \* the process is about to end) or "exited"
    client_ip,         \* handle_connection: client_ip
    upstream_idx,      \* connect_to_upstream: upstream_idx
    picked,            \* what the last pick_known_alive_upstream of this
                       \* connection returned: << >> before it returns,
                       \* <<None>> or <<Some(index)>>
    reply,             \* status of the last response sent on this
                       \* connection, 0 when none
    forwarded,         \* per client IP, the requests written to an upstream
                       \* since the last reset of the counters
    served,            \* number of requests read from clients so far
    hc,                \* where the health check task stands: "sleep",
                       \* "probe", "alive" or "dead" (about to mark so)
    cidx,              \* active_health_check: idx
    \* parallel_map
    input_vec,         \* the argument input_vec
    num_threads,       \* the argument num_threads
    elem,              \* the kind of the result type U
    in_chan,           \* the pairs (i, num) sent and not yet received
    out_chan,          \* the pairs (i, ans) sent and not yet received
    in_sender,         \* whether in_sender has not been dropped
    out_senders,       \* number of out_sender handles not yet dropped
    mpc,               \* where the main thread stands: "idle" (not
                       \* called), "spawn", "send", "drop_out" (in_sender
                       \* dropped, out_sender not yet), "join", "collect",
                       \* "returned" or "crashed"
    threads,           \* number of threads spawned
    sent,              \* number of elements sent to the workers
    joined,            \* number of threads joined
    wpc,               \* per worker: "none", "recv", "send" or "done"
    pair,              \* per worker: the pair it received, or << >>
    output_len,        \* output_vec.len()
    output_vec,        \* the buffer of output_vec, one slot per index
    heap               \* the allocator's bookkeeping: "sound", or "damaged"
                       \* once a drop has freed what it did not own

\* the variables of the debugger session and its traced process
session == <<cmd, pc, inferior, breaks, procs, mem, rip, rbp, out, ops, status, resumed,
             step, lookups, panic, btRip, btRbp, frames>>
\* the variables of a call of dedup
call == <<vec, seen, cnt, idx, given, len, at>>
\* the variables of the load balancer
proxy == <<max_requests_per_minute, upstream_alives, requests_counter, alives_lock, hpc,
           client_ip, upstream_idx, picked, reply, forwarded, served, hc, cidx>>
\* the variables of a call of parallel_map
pmap == <<input_vec, num_threads, elem, in_chan, out_chan, in_sender, out_senders, mpc,
          threads, sent, joined, wpc, pair, output_len, output_vec, heap>>

vars == <<cmd, pc, inferior, breaks, procs, mem, rip, rbp, out, ops, status, resumed,
          step, lookups, panic, btRip, btRbp, frames, poke, vec, seen, cnt, idx, given,
          len, at, max_requests_per_minute, upstream_alives, requests_counter, alives_lock,
          hpc, client_ip, upstream_idx, picked, reply, forwarded, served, hc, cidx,
          input_vec, num_threads, elem, in_chan, out_chan, in_sender, out_senders, mpc,
          threads, sent, joined, wpc, pair, output_len, output_vec, heap>>

\* the arguments of the breakpoint command the model issues
BreakArgs ==
    { <<"*", "0", "X", "1", "4">>, <<"*", "0">>, <<"*", "z">>,
      <<"+", "1", "4">>, <<"9">>,
      <<"f", "o", "o">>, <<"x", "y", "z">> }

\* Debugger::new: no Inferior, no breakpoint recorded
SessionInit ==
    /\ cmd = << >>
    /\ pc = "prompt"
    /\ inferior = None
    /\ breaks = << >>
    /\ procs = [p \in 1..MaxProcs |-> "unborn"]
    /\ mem = FreshMem
    /\ rip = EntryRip
    /\ rbp = 0
    /\ out = << >>
    /\ ops = << >>
    /\ status = None
    /\ resumed = None
    /\ step = None
    /\ lookups = << >>
    /\ panic = ""
    /\ btRip = 0
    /\ btRbp = 0
    /\ frames = << >>

\* dedup is not called
NoCall ==
    /\ vec = << >>
    /\ seen = {}
    /\ cnt = 0
    /\ idx = 0
    /\ given = << >>
    /\ len = 0
    /\ at = "idle"

\* the load balancer is not started
NoProxy ==
    /\ max_requests_per_minute = 0
    /\ upstream_alives = <<0, << >> >>
    /\ requests_counter = << >>
    /\ alives_lock = "free"
    /\ hpc = "idle"
    /\ client_ip = ""
    /\ upstream_idx = 0
    /\ picked = << >>
    /\ reply = 0
    /\ forwarded = << >>
    /\ served = 0
    /\ hc = "sleep"
    /\ cidx = 0

\* parallel_map is not called
NoMap ==
    /\ input_vec = << >>
    /\ num_threads = 0
    /\ elem = ""
    /\ in_chan = << >>
    /\ out_chan = << >>
    /\ in_sender = FALSE
    /\ out_senders = 0
    /\ mpc = "idle"
    /\ threads = 0
    /\ sent = 0
    /\ joined = 0
    /\ wpc = << >>
    /\ pair = << >>
    /\ output_len = 0
    /\ output_vec = << >>
    /\ heap = "sound"

Init ==
    /\ SessionInit
    /\ poke = << >>
    /\ NoCall
    /\ NoProxy
    /\ NoMap

\* the process of the held Inferior is alive
InfAlive == IsSome(inferior) /\ procs[Unwrap(inferior).pid] = "stopped"
\* the pid the next spawn gets
NextPid == CHOOSE p \in 1..MaxProcs : procs[p] = "unborn" /\ \A q \in 1..(p - 1) : procs[q] # "unborn"

\* the session and process state a command leaves; the backtrace is cleared
Leave(cmd2, pc2, inferior2, breaks2, procs2, mem2, rip2, rbp2, out2, ops2, status2, resumed2, step2, lookups2, panic2) ==
    /\ cmd' = cmd2
    /\ pc' = pc2
    /\ inferior' = inferior2
    /\ breaks' = breaks2
    /\ procs' = procs2
    /\ mem' = mem2
    /\ rip' = rip2
    /\ rbp' = rbp2
    /\ out' = out2
    /\ ops' = ops2
    /\ status' = status2
    /\ resumed' = resumed2
    /\ step' = step2
    /\ lookups' = lookups2
    /\ panic' = panic2
    /\ btRip' = 0
    /\ btRbp' = 0
    /\ frames' = << >>
    /\ UNCHANGED <<poke, call, proxy, pmap>>

\* Inferior::print_stop at rip r: Ok, or the panic of an unwrap
print_stop(r) ==
    IF get_function_from_addr(r) = None \/ get_line_from_addr(r) = None
    THEN "Panic" ELSE "Ok"

\* Held that forgets the Inferior only when the process exited normally
HeldUnlessExited(kind, inf) == IF kind = "Exited" THEN None ELSE inf

\* lines 74-85 and 95-106: the Inferior the session holds after a status of
\* this kind was obtained from inf
Held(kind, inf) == IF kind \in {"Exited", "Signaled"} THEN None ELSE inf

(***************************************************************************)
(* The match on the result c of cont, in the Run arm (lines 72-86) and,    *)
(* the same, in the Continue arm (lines 93-107).  inf is the Inferior cont *)
(* was called on.                                                          *)
(***************************************************************************)
Report(cmd0, c, inf, procs0, out0, ops0) ==
    LET pid == Unwrap(inf).pid
        procs2 == [procs0 EXCEPT ![pid] = IF c.alive THEN "stopped" ELSE "reaped"]
        ops2 == ops0 \o c.ops
        got == Some([st |-> c.status, pid |-> pid])
    IN IF c.res = "Panic"
       THEN Leave(cmd0, "panicked", inf, breaks, procs0, c.mem, c.rip, c.rbp, out0, ops2,
                  None, c.resumed, c.step, << >>, "wait")
       ELSE IF c.res = "Err"
       THEN Leave(cmd0, "panicked", inf, breaks, procs0, c.mem, c.rip, c.rbp, out0, ops2,
                  None, c.resumed, c.step, << >>, "cont")
       ELSE IF c.status.kind = "Exited"
       THEN Leave(cmd0, "prompt", Held("Exited", inf), breaks, procs2, FreshMem, EntryRip, 0,
                  out0 \o << "Process exited with code" >>, ops2,
                  got, c.resumed, c.step, << >>, "")
       ELSE IF c.status.kind = "Signaled"
       THEN Leave(cmd0, "prompt", Held("Signaled", inf), breaks, procs2, FreshMem, EntryRip, 0,
                  out0 \o << "Process exited by signal" >>, ops2,
                  got, c.resumed, c.step, << >>, "")
       ELSE IF print_stop(c.rip) = "Panic"
       THEN Leave(cmd0, "panicked", inf, breaks, procs2, c.mem, c.rip, c.rbp,
                  out0 \o << "Process stopped with signal" >>, ops2 \o << <<"getregs">> >>,
                  got, c.resumed, c.step, << >>, "print_stop")
       ELSE Leave(cmd0, "prompt", Held("Stopped", inf), breaks, procs2, c.mem, c.rip, c.rbp,
                  out0 \o << "Process stopped with signal", "Stopped at" >>,
                  ops2 \o << <<"getregs">> >>,
                  got, c.resumed, c.step, << >>, "")

\* NoInferior that unwraps the missing Inferior and panics
NoInferiorUnwrapped(cmd0, msg) ==
    Leave(cmd0, "panicked", inferior, breaks, procs, mem, rip, rbp, << >>,
          << <<"getregs">> >>, None, None, None, << >>, "unwrap")

\* lines 109 and 115: the None arm of Continue and of BackTrace
NoInferior(cmd0, msg) ==
    Leave(cmd0, "prompt", inferior, breaks, procs, mem, rip, rbp, << msg >>, << >>,
          None, None, None, << >>, "")

(***************************************************************************)
(* DebuggerCommand::Run, lines 60-90.                                      *)
(***************************************************************************)
Run ==
    /\ pc = "prompt"
    /\ \E p \in 1..MaxProcs : procs[p] = "unborn"
    /\ LET held == IsSome(inferior)
           k == kill(InfAlive)
           out1 == IF held THEN << "Killing running process" >> ELSE << >>
           ops1 == IF held THEN k.ops ELSE << >>
           procs1 == IF held /\ k.res = "Ok"
                     THEN [procs EXCEPT ![Unwrap(inferior).pid] = "reaped"] ELSE procs
       IN IF held /\ k.res = "Panic"
          THEN Leave(<<"Run">>, "panicked", inferior, breaks, procs, mem, rip, rbp, out1, ops1,
                     None, None, None, << >>, "kill")
          ELSE \E n \in new(breaks) :
                 LET procs2 == IF n.created
                               THEN [procs1 EXCEPT ![NextPid] =
                                        IF n.alive THEN "stopped" ELSE "reaped"]
                               ELSE procs1
                     inf == Some([pid |-> NextPid, bp_map |-> n.bp_map])
                 IN IF n.res = "Panic"
                    THEN Leave(<<"Run">>, "panicked", inferior, breaks, procs2, FreshMem, EntryRip, 0,
                               out1, ops1 \o n.ops, None, None, None, << >>, "wait")
                    ELSE IF n.res = "None"
                    THEN Leave(<<"Run">>, "prompt", inferior, breaks, procs2, FreshMem, EntryRip, 0,
                               out1 \o << "Error starting subprocess" >>,
                               ops1 \o n.ops, None, None, None, << >>, "")
                    ELSE \E c \in cont(TRUE, n.bp_map, n.mem, n.rip, n.rbp) :
                           Report(<<"Run">>, c, inf, procs2, out1, ops1 \o n.ops)

(***************************************************************************)
(* DebuggerCommand::Continue, lines 91-110.                                *)
(***************************************************************************)
Continue ==
    /\ pc = "prompt"
    /\ IF inferior = None
       THEN NoInferior(<<"Continue">>, "No inferior process to continue")
       ELSE \E c \in cont(InfAlive, Unwrap(inferior).bp_map, mem, rip, rbp) :
              Report(<<"Continue">>, c, inferior, procs, << >>, << >>)

(***************************************************************************)
(* DebuggerCommand::BackTrace, lines 111-116, up to the loop of            *)
(* print_backtrace (lines 114-117).                                        *)
(***************************************************************************)
BackTrace ==
    /\ pc = "prompt"
    /\ IF inferior = None
       THEN NoInferior(<<"BackTrace">>, "No inferior process to backtrace")
       ELSE IF ~InfAlive
       THEN Leave(<<"BackTrace">>, "panicked", inferior, breaks, procs, mem, rip, rbp, << >>,
                  << <<"getregs">> >>, None, None, None, << >>, "print_backtrace")
       ELSE /\ pc' = "bt"
            /\ cmd' = <<"BackTrace">>
            /\ btRip' = rip
            /\ btRbp' = rbp
            /\ frames' = << >>
            /\ out' = << "%rip register" >>
            /\ ops' = << <<"getregs">> >>
            /\ status' = None
            /\ resumed' = None
            /\ step' = None
            /\ lookups' = << >>
            /\ UNCHANGED <<inferior, breaks, procs, mem, rip, rbp, panic, poke, call, proxy, pmap>>

\* ReturnSlot taken from the frame base already replaced by the caller's
ReturnSlotOfCaller(fb) ==
    IF IsSome(read(mem, fb)) THEN ToAddr(Unwrap(read(mem, fb))) + 8 ELSE fb + 8

\* where the walk reads the return address and the caller's frame base
ReturnSlot(fb) == fb + 8
CallerSlot(fb) == fb

(***************************************************************************)
(* One pass of the loop of print_backtrace, lines 118-127.  The model      *)
(* keeps the first MaxFrames frames printed (with the rip and rbp they     *)
(* were printed for); the walk itself goes on.                             *)
(***************************************************************************)
BtStep ==
    /\ pc = "bt"
    /\ LET func == get_function_from_addr(btRip)
           line == get_line_from_addr(btRip)
           room == Len(frames) < MaxFrames
           ret == read(mem, ReturnSlot(btRbp))
           caller == read(mem, CallerSlot(btRbp))
       IN IF func = None \/ line = None
          THEN /\ pc' = "panicked"
               /\ panic' = "get_function_from_addr"
               /\ UNCHANGED <<btRip, btRbp, frames, ops>>
          ELSE /\ frames' = IF room
                            THEN Append(frames, [func |-> Unwrap(func), line |-> Unwrap(line),
                                                 rip |-> btRip, rbp |-> btRbp])
                            ELSE frames
               /\ IF Unwrap(func) = "main"
                  THEN /\ pc' = "prompt"
                       /\ UNCHANGED <<btRip, btRbp, ops, panic>>
                  ELSE IF ret = None \/ caller = None
                  THEN /\ pc' = "panicked"
                       /\ panic' = "print_backtrace"
                       /\ ops' = IF room THEN Append(ops, <<"read", ReturnSlot(btRbp)>>) ELSE ops
                       /\ UNCHANGED <<btRip, btRbp>>
                  ELSE /\ pc' = "bt"
                       /\ btRip' = ToAddr(Unwrap(ret))
                       /\ btRbp' = ToAddr(Unwrap(caller))
                       /\ ops' = IF room
                                 THEN ops \o << <<"read", ReturnSlot(btRbp)>>,
                                                <<"read", CallerSlot(btRbp)>> >>
                                 ELSE ops
                       /\ UNCHANGED panic
    /\ UNCHANGED <<cmd, inferior, breaks, procs, mem, rip, rbp, out, status, resumed, step,
                   lookups, poke, call, proxy, pmap>>

(***************************************************************************)
(* DebuggerCommand::Quit, lines 117-124.                                   *)
(***************************************************************************)
Quit ==
    /\ pc = "prompt"
    /\ IF inferior = None
       THEN Leave(<<"Quit">>, "done", inferior, breaks, procs, mem, rip, rbp, << >>, << >>, None, None,
                  None, << >>, "")
       ELSE IF kill(InfAlive).res = "Panic"
       THEN Leave(<<"Quit">>, "panicked", inferior, breaks, procs, mem, rip, rbp,
                  << "Killing running process" >>, kill(InfAlive).ops, None, None, None,
                  << >>, "kill")
       ELSE Leave(<<"Quit">>, "done", inferior, breaks, [procs EXCEPT ![Unwrap(inferior).pid] = "reaped"],
                  FreshMem, EntryRip, 0, << "Killing running process" >>, kill(InfAlive).ops, None,
                  None, None, << >>, "")

(***************************************************************************)
(* DebuggerCommand::BreakPoint(arg), lines 125-165.                        *)
(***************************************************************************)
BreakPoint(arg) ==
    /\ pc = "prompt"
    /\ LET r == resolve(arg)
       IN IF r.addr = None
          THEN Leave(<<"BreakPoint", arg>>, "prompt", inferior, breaks, procs, mem, rip, rbp, r.msg, << >>, None,
                     None, None, r.lookups, "")
          ELSE /\ Len(breaks) < MaxBreaks
               /\ LET addr == Unwrap(r.addr)
                      w == write_byte(InfAlive, mem, addr, TrapOp)
                      pushed == Append(breaks, addr)
                  IN IF inferior = None
                     THEN Leave(<<"BreakPoint", arg>>, "prompt", inferior, pushed, procs, mem, rip, rbp,
                                << "Set breakpoint" >>, << >>, None, None, None,
                                r.lookups, "")
                     ELSE IF ~w.ok
                     THEN Leave(<<"BreakPoint", arg>>, "panicked", inferior, pushed, procs, mem, rip, rbp,
                                << "Set breakpoint" >>, w.ops, None, None, None,
                                r.lookups, "write_byte")
                     ELSE Leave(<<"BreakPoint", arg>>, "prompt",
                                Some([pid |-> Unwrap(inferior).pid,
                                      bp_map |-> (addr :> w.orig) @@ Unwrap(inferior).bp_map]),
                                pushed, procs, w.mem, rip, rbp, << "Set breakpoint" >>, w.ops,
                                None, None, None, r.lookups, "")

Next ==
    \/ Run
    \/ Continue
    \/ BackTrace
    \/ BtStep
    \/ Quit
    \/ \E arg \in BreakArgs : BreakPoint(arg)

Spec == Init /\ [][Next]_vars

(***************************************************************************)
(* Inferior::write_byte on its own: calls on a stopped process, each on    *)
(* the memory the one before left, at every byte of the first text word,   *)
(* at a byte of the stack and at unmapped addresses.                       *)
(***************************************************************************)
PokeAddrs == (16..23) \cup {3, 40, 66}
PokeVals == {0, TrapOp, 255}

WriteByte(addr, val) ==
    /\ Len(poke) < MaxPokes
    /\ LET w == write_byte(TRUE, mem, addr, val)
       IN /\ mem' = w.mem
          /\ ops' = w.ops
          /\ poke' = Append(poke, [addr |-> addr, val |-> val, before |-> mem, res |-> w])
    /\ UNCHANGED <<cmd, pc, inferior, breaks, procs, rip, rbp, out, status, resumed, step,
                   lookups, panic, btRip, btRbp, frames, call, proxy, pmap>>

WriteByteNext == \E addr \in PokeAddrs, val \in PokeVals : WriteByte(addr, val)

WriteByteSpec == Init /\ [][WriteByteNext]_vars

(***************************************************************************)
(* dedup (week1/part-2-warmup/src/main.rs), one action per pass of its     *)
(* loop.  Indices are those of the code, from 0.                           *)
(***************************************************************************)
\* the values the vectors are made of
DedupVals == {0, 1, 3, 4}
Vectors == UNION {[1..k -> DedupVals] : k \in 0..MaxLen}

\* Vec::remove(index), index within the vector
remove(s, index) == SubSeq(s, 1, index) \o SubSeq(s, index + 2, Len(s))

\* Slot that does not account for the elements removed
SlotUnshifted(i, c) == i

\* the index the pass for i looks at: i - cnt
Slot(i, c) == i - c

DedupInit ==
    /\ SessionInit
    /\ poke = << >>
    /\ given \in Vectors
    /\ vec = given
    /\ seen = {}
    /\ cnt = 0
    /\ idx = 0
    /\ len = Len(given)
    /\ at = "loop"
    /\ NoProxy
    /\ NoMap

\* the pass of the loop for i = idx
DedupStep ==
    /\ at = "loop"
    /\ idx < len
    /\ IF Slot(idx, cnt) < 0 \/ Slot(idx, cnt) >= Len(vec)
       THEN /\ at' = "panic"
            /\ UNCHANGED <<vec, seen, cnt, idx>>
       ELSE IF vec[Slot(idx, cnt) + 1] \in seen
       THEN /\ vec' = remove(vec, Slot(idx, cnt))
            /\ cnt' = cnt + 1
            /\ idx' = idx + 1
            /\ UNCHANGED <<seen, at>>
       ELSE /\ seen' = seen \cup {vec[Slot(idx, cnt) + 1]}
            /\ idx' = idx + 1
            /\ UNCHANGED <<vec, cnt, at>>
    /\ UNCHANGED <<session, poke, given, len, proxy, pmap>>

\* the range 0..v.len() is exhausted: dedup returns
DedupReturn ==
    /\ at = "loop"
    /\ idx >= len
    /\ at' = "done"
    /\ UNCHANGED <<session, poke, vec, seen, cnt, idx, given, len, proxy, pmap>>

DedupNext ==
    \/ DedupStep
    \/ DedupReturn

DedupSpec == DedupInit /\ [][DedupNext]_vars

(***************************************************************************)
(* balancebeam (proj2/balancebeam/src/main.rs).  The main task accepts one *)
(* connection at a time and awaits handle_connection on it; the health     *)
(* check task and the reset task run beside it.  Each action is the code   *)
(* between two awaits; a section under a write lock is one action.         *)
(***************************************************************************)
\* options.upstream.len()
NumUpstreams == 2
\* the indices of upstream_addresses
Upstreams == 0..(NumUpstreams - 1)
\* what a contact with an upstream server can come to, whatever came of the
\* contacts before: "ok" (it answers 200), "bad" (it answers another
\* status) or "down" (no connection, or the exchange fails)
UpStates == {"ok", "bad", "down"}
\* the values of --max-requests-per-minute the model starts the proxy with
Rates == {0, 1, 2}
\* the client IPs
Clients == {"10.0.0.1", "10.0.0.2"}

\* the process of the proxy exists: it was started and has not ended.  After
\* a panic of the main task the spawned tasks run on until the process ends
Running == hpc \notin {"idle", "exited"}

\* lines 154-158 with the flag set to false whether or not it was true
mark_dead_unchecked(alives, i) ==
    <<alives[1] - 1, [alives[2] EXCEPT ![i + 1] = FALSE]>>

\* lines 154-158 and 298-302: under the write lock, mark upstream i dead
mark_dead(alives, i) ==
    IF alives[2][i + 1] = TRUE
    THEN <<alives[1] - 1, [alives[2] EXCEPT ![i + 1] = FALSE]>>
    ELSE alives

\* lines 289-294: under the write lock, mark upstream i alive
mark_alive(alives, i) ==
    IF alives[2][i + 1] = FALSE
    THEN <<alives[1] + 1, [alives[2] EXCEPT ![i + 1] = TRUE]>>
    ELSE alives

\* the count of ip in the map rc, 0 when it has no entry (entry().or_insert(0))
Count(rc, ip) == IF ip \in DOMAIN rc THEN rc[ip] ELSE 0
\* rc with the count of ip set to n
WithCount(rc, ip, n) == [x \in DOMAIN rc \cup {ip} |-> IF x = ip THEN n ELSE rc[x]]

\* main, lines 94-102: all upstreams taken for alive, no request counted
ProxyInit ==
    /\ SessionInit
    /\ poke = << >>
    /\ NoCall
    /\ max_requests_per_minute \in Rates
    /\ upstream_alives = <<NumUpstreams, [i \in 1..NumUpstreams |-> TRUE]>>
    /\ requests_counter = << >>
    /\ alives_lock = "free"
    /\ hpc = "accept"
    /\ client_ip = ""
    /\ upstream_idx = 0
    /\ picked = << >>
    /\ reply = 0
    /\ forwarded = [ip \in Clients |-> 0]
    /\ served = 0
    /\ hc = "sleep"
    /\ cidx = 0
    /\ NoMap

\* lines 124-128 and 173-175: a connection from ip is taken from the
\* listener and handle_connection unwraps its peer_addr(): peer says
\* whether the client is still connected; when it has reset the connection
\* the unwrap of line 174 panics
Accept(ip, peer) ==
    /\ hpc = "accept"
    /\ hpc' = IF peer THEN "pick" ELSE "panicked"
    /\ client_ip' = IF peer THEN ip ELSE ""
    /\ picked' = << >>
    /\ reply' = 0
    /\ UNCHANGED <<session, poke, call, pmap, max_requests_per_minute, upstream_alives,
                   requests_counter, alives_lock, upstream_idx, forwarded, served, hc, cidx>>

\* pick_known_alive_upstream, line 134: the read lock is taken
PickEnter ==
    /\ hpc = "pick"
    /\ alives_lock = "free"
    /\ alives_lock' = "read"
    /\ hpc' = "picking"
    /\ UNCHANGED <<session, poke, call, pmap, max_requests_per_minute, upstream_alives,
                   requests_counter, client_ip, upstream_idx, picked, reply, forwarded,
                   served, hc, cidx>>

\* pick_known_alive_upstream, lines 135-141, one test of the loop condition
\* with the random index i; and line 148, where connect_to_upstream unwraps
\* what was returned
PickTry(i) ==
    /\ hpc = "picking"
    /\ IF upstream_alives[1] > 0
       THEN IF upstream_alives[2][i + 1]
            THEN /\ picked' = << Some(i) >>
                 /\ upstream_idx' = i
                 /\ hpc' = "connect"
                 /\ alives_lock' = "free"
            ELSE UNCHANGED <<picked, upstream_idx, hpc, alives_lock>>
       ELSE /\ picked' = << None >>
            /\ hpc' = "panicked"
            /\ alives_lock' = "free"
            /\ UNCHANGED upstream_idx
    /\ UNCHANGED <<session, poke, call, pmap, max_requests_per_minute, upstream_alives,
                   requests_counter, client_ip, reply, forwarded, served, hc, cidx>>

\* connect_to_upstream, lines 149-152: TcpStream::connect to the picked
\* upstream succeeds (ok) or fails; line 188: handle_connection unwraps the
\* peer_addr() of the new connection, which panics when the upstream has
\* reset it already (not peer)
Connect(ok, peer) ==
    /\ hpc = "connect"
    /\ ~ok => peer
    /\ hpc' = IF ~ok THEN "mark" ELSE IF peer THEN "read" ELSE "panicked"
    /\ UNCHANGED <<session, poke, call, pmap, max_requests_per_minute, upstream_alives,
                   requests_counter, alives_lock, client_ip, upstream_idx, picked, reply,
                   forwarded, served, hc, cidx>>

\* connect_to_upstream, lines 153-158: the failed upstream is marked dead,
\* and the loop picks again
MarkDead ==
    /\ hpc = "mark"
    /\ alives_lock = "free"
    /\ upstream_alives' = mark_dead(upstream_alives, upstream_idx)
    /\ hpc' = "pick"
    /\ UNCHANGED <<session, poke, call, pmap, max_requests_per_minute, requests_counter,
                   alives_lock, client_ip, upstream_idx, picked, reply, forwarded, served,
                   hc, cidx>>

\* what read_from_stream returns on the client connection: "request" (Ok),
\* "hangup" (IncompleteRequest(0) or ConnectionError: the handler returns),
\* "malformed" (IncompleteRequest(n), MalformedRequest, InvalidContentLength,
\* ContentLengthMismatch) or "too_large" (RequestBodyTooLarge)
ReadResults == {"request", "hangup", "malformed", "too_large"}

\* lines 208-215: the status answered to a request that could not be read
error_status(r) == IF r = "too_large" THEN 413 ELSE 400

\* send_response, lines 164-171, and what follows it in handle_connection:
\* the unwrap of peer_addr() panics when the client has reset the connection
\* (not peer), else the response with status code is written and the
\* handler goes on at next
send_response(peer, code, next) ==
    IF peer THEN reply' = code /\ hpc' = next
            ELSE reply' = reply /\ hpc' = "panicked"

\* handle_connection, lines 194-219: a request is read from the client.  A
\* request that cannot be parsed is answered 400 or 413, and the loop goes on
ReadRequest(r, peer) ==
    /\ hpc = "read"
    /\ r = "request" => served < MaxRequests
    /\ served' = IF r = "request" THEN served + 1 ELSE served
    /\ IF r \in {"malformed", "too_large"}
       THEN send_response(peer, error_status(r), "read")
       ELSE /\ peer
            /\ hpc' = IF r = "request" THEN "limit" ELSE "accept"
            /\ reply' = reply
    /\ UNCHANGED <<session, poke, call, pmap, max_requests_per_minute, upstream_alives,
                   requests_counter, alives_lock, client_ip, upstream_idx, picked,
                   forwarded, hc, cidx>>

\* Limited that lets one request more through
LimitedLate(n, max) == n > max + 1

\* line 227: the count n exceeds the limit
Limited(n, max) == n > max

\* the write lock of requests_counter is held across an await: only while
\* the handler sends the 429 of line 230
CounterLocked == hpc = "limited"

\* handle_connection, lines 223-228: the request is counted under the write
\* lock of requests_counter.  When the count exceeds the limit the handler
\* goes on to send 429 with the lock still held, else the lock is released
\* and the request goes on to be forwarded
RateLimit ==
    /\ hpc = "limit"
    /\ IF max_requests_per_minute > 0
       THEN LET n == Count(requests_counter, client_ip) + 1
            IN /\ requests_counter' = WithCount(requests_counter, client_ip, n)
               /\ hpc' = IF Limited(n, max_requests_per_minute) THEN "limited"
                                                                ELSE "forward"
       ELSE /\ hpc' = "forward"
            /\ UNCHANGED requests_counter
    /\ UNCHANGED <<session, poke, call, pmap, max_requests_per_minute, upstream_alives,
                   alives_lock, client_ip, upstream_idx, picked, reply, forwarded, served,
                   hc, cidx>>

\* handle_connection, lines 229-231: the 429 is sent to the client, the
\* handler returns and the write lock of requests_counter is released; a
\* panic of send_response releases the lock as well
TooManyRequests(peer) ==
    /\ hpc = "limited"
    /\ send_response(peer, 429, "accept")
    /\ UNCHANGED <<session, poke, call, pmap, max_requests_per_minute, upstream_alives,
                   requests_counter, alives_lock, client_ip, upstream_idx, picked,
                   forwarded, served, hc, cidx>>

\* handle_connection, lines 248-254: the request is written to the upstream
\* connection (ok), or the write fails and the client is answered 502
Forward(ok, peer) ==
    /\ hpc = "forward"
    /\ IF ok
       THEN /\ peer
            /\ forwarded' = [forwarded EXCEPT ![client_ip] = @ + 1]
            /\ hpc' = "response"
            /\ reply' = reply
       ELSE /\ send_response(peer, 502, "accept")
            /\ forwarded' = forwarded
    /\ UNCHANGED <<session, poke, call, pmap, max_requests_per_minute, upstream_alives,
                   requests_counter, alives_lock, client_ip, upstream_idx, picked, served,
                   hc, cidx>>

\* the statuses an upstream answers a forwarded request with
UpstreamStatuses == {200, 500, 502}

\* handle_connection, lines 257-268: the response of the upstream is read and
\* sent to the client as it is, with the status st the upstream gave it
\* (ok), or reading fails and the client is answered 502
Response(ok, st, peer) ==
    /\ hpc = "response"
    /\ IF ok THEN send_response(peer, st, "read")
             ELSE send_response(peer, 502, "accept")
    /\ UNCHANGED <<session, poke, call, pmap, max_requests_per_minute, upstream_alives,
                   requests_counter, alives_lock, client_ip, upstream_idx, picked,
                   forwarded, served, hc, cidx>>

\* main, lines 107-112: the interval has passed, active_health_check begins
HealthStart ==
    /\ Running
    /\ hc = "sleep"
    /\ hc' = "probe"
    /\ cidx' = 0
    /\ UNCHANGED <<session, poke, call, pmap, max_requests_per_minute, upstream_alives,
                   requests_counter, alives_lock, hpc, client_ip, upstream_idx, picked,
                   reply, forwarded, served>>

\* the loop of active_health_check goes to the next upstream, or ends
HealthAdvance ==
    IF cidx + 1 < NumUpstreams
    THEN hc' = "probe" /\ cidx' = cidx + 1
    ELSE hc' = "sleep" /\ cidx' = 0

\* active_health_check, lines 273-318: the request to upstream cidx comes to
\* st.  Only a response leads to a change of upstream_alives: a failed
\* connection or exchange is logged, and the loop goes on
Probe(st) ==
    /\ Running
    /\ hc = "probe"
    /\ IF st = "down"
       THEN HealthAdvance
       ELSE /\ hc' = IF st = "ok" THEN "alive" ELSE "dead"
            /\ cidx' = cidx
    /\ UNCHANGED <<session, poke, call, pmap, max_requests_per_minute, upstream_alives,
                   requests_counter, alives_lock, hpc, client_ip, upstream_idx, picked,
                   reply, forwarded, served>>

\* active_health_check, lines 289-302: under the write lock, upstream cidx is
\* marked alive or dead
HealthMark ==
    /\ Running
    /\ hc \in {"alive", "dead"}
    /\ alives_lock = "free"
    /\ upstream_alives' = IF hc = "alive" THEN mark_alive(upstream_alives, cidx)
                                          ELSE mark_dead(upstream_alives, cidx)
    /\ HealthAdvance
    /\ UNCHANGED <<session, poke, call, pmap, max_requests_per_minute, requests_counter,
                   alives_lock, hpc, client_ip, upstream_idx, picked, reply, forwarded,
                   served>>

\* main, lines 114-122, and reset_rate_fixed_window: the task exists only
\* with a limit above zero, and takes the write lock of requests_counter.
\* The count of forwarded requests starts again
Reset ==
    /\ Running
    /\ max_requests_per_minute > 0
    /\ ~CounterLocked
    /\ requests_counter' = << >>
    /\ forwarded' = [ip \in Clients |-> 0]
    /\ UNCHANGED <<session, poke, call, pmap, max_requests_per_minute, upstream_alives,
                   alives_lock, hpc, client_ip, upstream_idx, picked, reply, served, hc,
                   cidx>>

\* main, lines 66-130: the panic has unwound the main task, and the process
\* ends with all its tasks
ProcessExit ==
    /\ hpc = "panicked"
    /\ hpc' = "exited"
    /\ UNCHANGED <<session, poke, call, pmap, max_requests_per_minute, upstream_alives,
                   requests_counter, alives_lock, client_ip, upstream_idx, picked, reply,
                   forwarded, served, hc, cidx>>

ProxyNext ==
    \/ \E ip \in Clients, peer \in BOOLEAN : Accept(ip, peer)
    \/ PickEnter
    \/ \E i \in Upstreams : PickTry(i)
    \/ \E ok \in BOOLEAN, peer \in BOOLEAN : Connect(ok, peer)
    \/ MarkDead
    \/ \E r \in ReadResults, peer \in BOOLEAN : ReadRequest(r, peer)
    \/ RateLimit
    \/ \E peer \in BOOLEAN : TooManyRequests(peer)
    \/ \E ok \in BOOLEAN, peer \in BOOLEAN : Forward(ok, peer)
    \/ \E ok \in BOOLEAN, st \in UpstreamStatuses, peer \in BOOLEAN : Response(ok, st, peer)
    \/ HealthStart
    \/ \E st \in UpStates : Probe(st)
    \/ HealthMark
    \/ Reset
    \/ ProcessExit

ProxySpec == ProxyInit /\ [][ProxyNext]_vars

(***************************************************************************)
(* parallel_map (week6/parallel_map): the main thread and its workers.     *)
(***************************************************************************)
\* the kinds of result type U the model instantiates parallel_map with: a
\* machine word (the i32 of main), the zero-sized unit type (), and a type
\* that owns a heap allocation and so has a destructor (String, Vec, Box)
Elems == {"word", "unit", "heap"}
\* the values of the input vector
Nums == {2, 3}
Inputs == UNION { [1..n -> Nums] : n \in 0..MaxInput }
Workers == 1..MaxThreads

\* usize::MAX, with usize narrowed to 16 bits: the model only needs it to be
\* larger than the length of every input
UsizeMax == 2 ^ 16 - 1
\* the one value of the unit type
Unit == 0
\* a slot of the buffer of output_vec that nothing has been written to
Uninit == 0 - 1
\* a result whose heap buffer was freed under it: its contents are no longer
\* what f returned
Garbage == 0 - 2

\* the closure of main: num * num
square(num) == num * num
\* f at the result type: a closure to () returns the unit value, the others
\* the square
f(e, num) == IF e = "unit" THEN Unit ELSE square(num)

\* Vec::with_capacity(n).capacity(): the requested capacity, and usize::MAX
\* for a zero-sized element type, which needs no allocation
capacity(e, n) == IF e = "unit" THEN UsizeMax ELSE n

\* the buffer behind Vec::with_capacity(n): n slots no one has written; a
\* zero-sized type has no bytes, every slot is the unit value
with_capacity(e, n) == [i \in 1..n |-> IF e = "unit" THEN Unit ELSE Uninit]

\* whether output_vec[i] = ans runs the destructor of the value it replaces
needs_drop(e) == e = "heap"

\* lines 10-13: the vector and the channels are made, no thread spawned yet
MapInit ==
    /\ SessionInit
    /\ poke = << >>
    /\ NoCall
    /\ NoProxy
    /\ input_vec \in Inputs
    /\ num_threads \in Workers
    /\ elem \in Elems
    /\ in_chan = << >>
    /\ out_chan = << >>
    /\ in_sender = TRUE
    /\ out_senders = 1
    /\ mpc = "spawn"
    /\ threads = 0
    /\ sent = 0
    /\ joined = 0
    /\ wpc = [w \in Workers |-> "none"]
    /\ pair = [w \in Workers |-> << >>]
    /\ output_len = 0
    /\ output_vec = with_capacity(elem, Len(input_vec))
    /\ heap = "sound"

\* lines 14-23: spawn the next worker with its clone of out_sender; after
\* the last one the main thread goes on to send
SpawnWorker ==
    /\ mpc = "spawn"
    /\ threads < num_threads
    /\ threads' = threads + 1
    /\ wpc' = [wpc EXCEPT ![threads + 1] = "recv"]
    /\ out_senders' = out_senders + 1
    /\ mpc' = IF threads + 1 = num_threads THEN "send" ELSE "spawn"
    /\ UNCHANGED <<session, poke, call, proxy, heap, input_vec, num_threads, elem, in_chan,
                   out_chan, in_sender, sent, joined, pair, output_len, output_vec>>

\* lines 24-26: in_sender.send((i, num)) on the unbounded channel
SendInput ==
    /\ mpc = "send"
    /\ sent < Len(input_vec)
    /\ in_chan' = Append(in_chan, <<sent, input_vec[sent + 1]>>)
    /\ sent' = sent + 1
    /\ UNCHANGED <<session, poke, call, proxy, heap, input_vec, num_threads, elem, out_chan,
                   in_sender, out_senders, mpc, threads, joined, wpc, pair, output_len,
                   output_vec>>

\* line 27: drop(in_sender)
DropInSender ==
    /\ mpc = "send"
    /\ sent = Len(input_vec)
    /\ in_sender' = FALSE
    /\ mpc' = "drop_out"
    /\ UNCHANGED <<session, poke, call, proxy, heap, input_vec, num_threads, elem, in_chan,
                   out_chan, out_senders, threads, sent, joined, wpc, pair, output_len,
                   output_vec>>

\* line 28: drop(out_sender), the handle of the main thread
DropOutSender ==
    /\ mpc = "drop_out"
    /\ out_senders' = out_senders - 1
    /\ mpc' = "join"
    /\ UNCHANGED <<session, poke, call, proxy, heap, input_vec, num_threads, elem, in_chan,
                   out_chan, in_sender, threads, sent, joined, wpc, pair, output_len,
                   output_vec>>

\* line 18, in_receiver.recv(): take the oldest pair; with the channel empty
\* wait while in_sender lives, and leave the loop once it is dropped; the
\* finished closure drops its out_sender
WorkerRecv(w) ==
    /\ wpc[w] = "recv"
    /\ \/ /\ in_chan # << >>
          /\ pair' = [pair EXCEPT ![w] = Head(in_chan)]
          /\ in_chan' = Tail(in_chan)
          /\ wpc' = [wpc EXCEPT ![w] = "send"]
          /\ UNCHANGED out_senders
       \/ /\ in_chan = << >>
          /\ ~in_sender
          /\ wpc' = [wpc EXCEPT ![w] = "done"]
          /\ out_senders' = out_senders - 1
          /\ UNCHANGED <<in_chan, pair>>
    /\ UNCHANGED <<session, poke, call, proxy, heap, input_vec, num_threads, elem, out_chan,
                   in_sender, mpc, threads, sent, joined, output_len, output_vec>>

\* line 19: pair.0, the index the worker sends back with the result
OutIndex(w) == pair[w][1]

\* lines 19-20: out = (pair.0, f(pair.1)); out_sender.send(out)
WorkerSend(w) ==
    /\ wpc[w] = "send"
    /\ out_chan' = Append(out_chan, <<OutIndex(w), f(elem, pair[w][2])>>)
    /\ pair' = [pair EXCEPT ![w] = << >>]
    /\ wpc' = [wpc EXCEPT ![w] = "recv"]
    /\ UNCHANGED <<session, poke, call, proxy, heap, input_vec, num_threads, elem, in_chan,
                   in_sender, out_senders, mpc, threads, sent, joined, output_len,
                   output_vec>>

\* lines 30-32: thread.join() on the threads in the order they were spawned
Join ==
    /\ mpc = "join"
    /\ joined < num_threads
    /\ wpc[joined + 1] = "done"
    /\ joined' = joined + 1
    /\ UNCHANGED <<session, poke, call, proxy, heap, input_vec, num_threads, elem, in_chan,
                   out_chan, in_sender, out_senders, mpc, threads, sent, wpc, pair,
                   output_len, output_vec>>

\* line 33: output_vec.set_len(output_vec.capacity())
SetLen ==
    /\ mpc = "join"
    /\ joined = num_threads
    /\ output_len' = capacity(elem, Len(input_vec))
    /\ mpc' = "collect"
    /\ UNCHANGED <<session, poke, call, proxy, heap, input_vec, num_threads, elem, in_chan,
                   out_chan, in_sender, out_senders, threads, sent, joined, wpc, pair,
                   output_vec>>

\* what dropping a value that was never written can come to: nothing
\* happens ("pass"); the process is brought down at once ("crash"); the drop
\* frees the buffer of a result of this call ("corrupt"); or it frees some
\* other live block, such as one of the channel ("damage"): the assignment
\* goes through and the process may die at a later allocation or release
DropOutcomes == {"pass", "crash", "corrupt", "damage"}

\* the result with index v, already written to its slot, loses its contents
corrupt_slot(buf, v) == [buf EXCEPT ![v + 1] = Garbage]
\* the result with index v, still in the output channel, loses its contents
corrupt_chan(chan, v) ==
    [k \in 1..Len(chan) |-> IF chan[k][1] = v THEN <<v, Garbage>> ELSE chan[k]]

\* lines 34-36: out_receiver.recv() and output_vec[i] = ans.  The assignment
\* first drops the value the slot held; for a type with a destructor that
\* value was never written, and the drop comes to one of DropOutcomes, with
\* v the index of the result that suffers from "corrupt".  A free of what
\* the slot did not own leaves the heap damaged
Collect(outcome, v) ==
    /\ mpc = "collect"
    /\ out_chan # << >>
    /\ LET i == Head(out_chan)[1]
           ans == Head(out_chan)[2]
           uninit == needs_drop(elem) /\ output_vec[i + 1] = Uninit
           written == [output_vec EXCEPT ![i + 1] = ans]
       IN  CASE ~uninit \/ outcome = "pass" ->
                    /\ outcome = "pass"
                    /\ v = 0
                    /\ output_vec' = written
                    /\ out_chan' = Tail(out_chan)
                    /\ UNCHANGED <<mpc, heap>>
             [] uninit /\ outcome = "crash" ->
                    /\ v = 0
                    /\ mpc' = "crashed"
                    /\ out_chan' = Tail(out_chan)
                    /\ UNCHANGED <<output_vec, heap>>
             [] uninit /\ outcome = "corrupt" ->
                    /\ v < Len(input_vec)
                    /\ IF written[v + 1] # Uninit
                       THEN /\ output_vec' = corrupt_slot(written, v)
                            /\ out_chan' = Tail(out_chan)
                       ELSE /\ output_vec' = written
                            /\ out_chan' = corrupt_chan(Tail(out_chan), v)
                    /\ heap' = "damaged"
                    /\ UNCHANGED mpc
             [] uninit /\ outcome = "damage" ->
                    /\ v = 0
                    /\ output_vec' = written
                    /\ out_chan' = Tail(out_chan)
                    /\ heap' = "damaged"
                    /\ UNCHANGED mpc
    /\ UNCHANGED <<session, poke, call, proxy, input_vec, num_threads, elem, in_chan,
                   in_sender, out_senders, threads, sent, joined, wpc, pair, output_len>>

\* lines 34 and 37-38: recv fails once the channel is empty and every
\* out_sender is dropped.  The receivers and the channels are dropped and
\* output_vec is returned (alive); on a damaged heap the release of the
\* channels can instead bring the process down before parallel_map returns
Return(alive) ==
    /\ mpc = "collect"
    /\ out_chan = << >>
    /\ out_senders = 0
    /\ ~alive => heap = "damaged"
    /\ mpc' = IF alive THEN "returned" ELSE "crashed"
    /\ UNCHANGED <<session, poke, call, proxy, heap, input_vec, num_threads, elem,
                   in_chan, out_chan, in_sender, out_senders, threads, sent, joined, wpc,
                   pair, output_len, output_vec>>

Main == SpawnWorker \/ SendInput \/ DropInSender \/ DropOutSender \/ Join \/ SetLen
            \/ (\E outcome \in DropOutcomes, v \in 0..(MaxInput - 1) : Collect(outcome, v))
            \/ (\E alive \in BOOLEAN : Return(alive))
Worker(w) == WorkerRecv(w) \/ WorkerSend(w)

MapNext ==
    \/ SpawnWorker
    \/ SendInput
    \/ DropInSender
    \/ DropOutSender
    \/ \E w \in Workers : WorkerRecv(w)
    \/ \E w \in Workers : WorkerSend(w)
    \/ Join
    \/ SetLen
    \/ \E outcome \in DropOutcomes, v \in 0..(MaxInput - 1) : Collect(outcome, v)
    \/ \E alive \in BOOLEAN : Return(alive)

\* every thread that can run is run in the end
MapSpec ==
    /\ MapInit
    /\ [][MapNext]_vars
    /\ WF_vars(Main)
    /\ \A w \in Workers : WF_vars(Worker(w))

(***************************************************************************)
(* Properties.                                                             *)
(***************************************************************************)
CmdName == IF cmd = << >> THEN "" ELSE cmd[1]
BpMap == Unwrap(inferior).bp_map
StepOf(s) == Unwrap(s)

\* C1: step-over re-arms the breakpoint.  When continue_execution has stepped
\* over the breakpoint at A (it started with program counter A + 1) and the
\* single step left the process alive (stopped), memory at A holds the trap
\* opcode whenever the process is resumed afterwards, by the same command or
\* by the next one: A is never among the installed addresses found unarmed at
\* ptrace::cont.
C1_StepOverRearms ==
    [][ \A s \in {step, step'} :
          (IsSome(s) /\ StepOf(s).kind = "Stopped" /\ IsSome(resumed'))
              => StepOf(s).addr \notin Unwrap(resumed') ]_vars

\* C2: after a successful run every recorded address holds the trap opcode
\* in target memory, and whenever the session holds a live Inferior the
\* original byte stored for an address is the byte of the unmodified binary
\* at that address.
C2_OriginalBytesRecorded ==
    (pc = "prompt" /\ InfAlive) =>
        /\ \A a \in DOMAIN BpMap : BpMap[a] = BinaryByte(a)
        /\ CmdName = "Run" =>
               \A i \in 1..Len(breaks) :
                   breaks[i] \in DOMAIN BpMap /\ ByteAt(mem, breaks[i]) = TrapOp

\* C3: at most one traced process is alive at any time, and a process that is
\* alive is the one of the Inferior the session holds: no earlier process is
\* left alive.
C3_AtMostOneProcess ==
    /\ Cardinality({p \in DOMAIN procs : procs[p] = "stopped"}) <= 1
    /\ \A p \in DOMAIN procs :
           procs[p] = "stopped" /\ pc = "prompt" => IsSome(inferior) /\ Unwrap(inferior).pid = p

\* C4: after a run or continue command that obtained a status, the session
\* holds no Inferior iff the status is Exited or Signaled, and holds the
\* Inferior the status was obtained from iff the status is Stopped.
C4_StatusDecidesInferior ==
    IsSome(status) =>
        LET got == Unwrap(status)
        IN /\ CmdName \in {"Run", "Continue"}
           /\ (inferior = None) <=> (got.st.kind \in {"Exited", "Signaled"})
           /\ (IsSome(inferior) /\ Unwrap(inferior).pid = got.pid) <=> (got.st.kind = "Stopped")
           /\ got.st.kind = "Stopped" => procs[got.pid] = "stopped"

\* a continue command found a held Inferior killed by a signal, and the
\* session holds none now
C4_Witness ==
    /\ CmdName = "Continue"
    /\ pc = "prompt"
    /\ IsSome(status)
    /\ Unwrap(status).st.kind = "Signaled"
    /\ inferior = None

\* C5: a run command whose spawn fails leaves the session holding no
\* Inferior, whether or not one existed when the command was issued.
C5_FailedSpawnLeavesNoProcess ==
    (CmdName = "Run" /\ pc = "prompt" /\ out # << >>
        /\ out[Len(out)] = "Error starting subprocess") => inferior = None

\* C6: the only failure that ends the session is the unclassifiable wait
\* status (the panic of Inferior::wait); no other error does.
C6_OnlyWaitStatusEndsSession ==
    pc = "panicked" => panic = "wait"

\* the arguments no method resolves: a raw address that is no hexadecimal
\* number, a line without address, a name of no function
UnresolvableArgs == { <<"*", "z">>, <<"9">>, <<"x", "y", "z">> }
FailureMessages ==
    { << "Fail to parse address" >>, << "No address found for line" >>,
      << "No address found for function" >> }

\* C7: a breakpoint command whose argument cannot be resolved reports the
\* failure and leaves the recorded addresses, the Inferior with its
\* breakpoint table and the memory of the traced process unchanged.
C7_UnresolvedChangesNothing ==
    [][ (pc = "prompt" /\ cmd' \in {<<"BreakPoint", a>> : a \in UnresolvableArgs})
            => /\ breaks' = breaks
               /\ inferior' = inferior
               /\ mem' = mem
               /\ procs' = procs
               /\ out' \in FailureMessages
               /\ pc' = "prompt" ]_vars

\* an unknown function name was given while a process with an installed
\* breakpoint is stopped
C7_Witness ==
    /\ cmd = <<"BreakPoint", <<"x", "y", "z">> >>
    /\ out = << "No address found for function" >>
    /\ InfAlive
    /\ DOMAIN BpMap # {}
    /\ Len(breaks) > 0

\* the method an argument calls for: raw address with the "*" prefix, else
\* line when it is a decimal number ("+" allowed in front), else function
DecimalDigits == {"0", "1", "2", "3", "4", "5", "6", "7", "8", "9"}
IsDecimal(arg) ==
    LET digits == IF arg[1] = "+" THEN Tail(arg) ELSE arg
    IN Len(digits) > 0 /\ \A i \in 1..Len(digits) : digits[i] \in DecimalDigits
MethodFor(arg) ==
    IF arg[1] = "*" THEN "raw" ELSE IF IsDecimal(arg) THEN "line" ELSE "function"

\* C8: a breakpoint argument is resolved by exactly one method, chosen in the
\* order raw address, line, function; a decimal number is never looked up as
\* a function name, even when its line has no address.
C8_OneMethodInOrder ==
    CmdName = "BreakPoint" => lookups = << MethodFor(cmd[2]) >>

\* a decimal number whose line has no address was looked up as a line only
C8_Witness ==
    /\ cmd = <<"BreakPoint", <<"9">> >>
    /\ lookups = << "line" >>
    /\ out = << "No address found for line" >>

\* C9: continue and backtrace issued while the session holds no Inferior
\* only report that there is no process: they make no process operation,
\* leave the recorded breakpoints, the absence of an Inferior and the
\* processes unchanged, and the command loop continues.
C9_NoProcessOnlyReports ==
    [][ (pc = "prompt" /\ inferior = None /\ cmd' \in {<<"Continue">>, <<"BackTrace">>})
            => /\ ops' = << >>
               /\ breaks' = breaks
               /\ inferior' = None
               /\ procs' = procs
               /\ pc' = "prompt"
               /\ out' \in { << "No inferior process to continue" >>,
                             << "No inferior process to backtrace" >> } ]_vars

\* backtrace was issued with breakpoints recorded and no Inferior
C9_Witness ==
    /\ cmd = <<"BackTrace">>
    /\ inferior = None
    /\ out = << "No inferior process to backtrace" >>
    /\ Len(breaks) > 0
    /\ pc = "prompt"

\* the word at address a as an address, FarAddr when a is unmapped
WordAt(a) == IF IsSome(read(mem, a)) THEN ToAddr(Unwrap(read(mem, a))) ELSE FarAddr

\* C10: a backtrace that returns has printed a non-empty list of frames,
\* innermost first: the first for the program counter and frame base of the
\* stopped process, each next one for the return address at frame_base + 8
\* and the caller's frame base at frame_base of the one before, each with
\* the function and line of its address; the last frame, and no other, is in
\* "main", and the walk goes on as long as no frame printed is in "main".
C10_BacktraceFollowsChain ==
    /\ pc = "bt" => \A i \in 1..Len(frames) : frames[i].func # "main"
    /\ (CmdName = "BackTrace" /\ pc = "prompt" /\ IsSome(inferior)) =>
        /\ Len(frames) >= 1
        /\ frames[1].rip = rip /\ frames[1].rbp = rbp
        /\ frames[Len(frames)].func = "main"
        /\ \A i \in 1..(Len(frames) - 1) :
               /\ frames[i].func # "main"
               /\ frames[i + 1].rip = WordAt(frames[i].rbp + 8)
               /\ frames[i + 1].rbp = WordAt(frames[i].rbp)
        /\ \A i \in 1..Len(frames) :
               /\ Some(frames[i].func) = get_function_from_addr(frames[i].rip)
               /\ Some(frames[i].line) = get_line_from_addr(frames[i].rip)

\* a backtrace from two calls below main returned with three frames
C10_Witness ==
    /\ CmdName = "BackTrace"
    /\ pc = "prompt"
    /\ IsSome(inferior)
    /\ Len(frames) = 3
    /\ frames[1].func = "bar"
    /\ frames[2].func = "foo"
    /\ frames[3].func = "main"

\* C11: a symbol lookup that finds nothing, during a backtrace or while a
\* stop is reported, does not end the session: the command loop goes on
\* (the frames gathered so far are reported and the Inferior is kept).
C11_SymbolFailureNotFatal ==
    ~(pc = "panicked" /\ panic \in {"get_function_from_addr", "print_stop"})

\* the text of memory m
Text(m) == [w \in TextWords |-> m[w]]

\* C12: continue on a stopped process whose program counter minus one is no
\* installed breakpoint is a plain resume followed by one wait: no step, no
\* write to or read of target memory, no register set, the recorded
\* breakpoints and the breakpoint table unchanged, and the status obtained is
\* the decoded status of that wait.
C12_PlainResume ==
    [][ (pc = "prompt" /\ InfAlive /\ (rip - 1) \notin DOMAIN BpMap /\ cmd' = <<"Continue">>)
            => /\ step' = None
               /\ IsSome(resumed')
               /\ Len(ops') >= 3
               /\ SubSeq(ops', 1, 3) = << <<"getregs">>, <<"cont">>, <<"wait">> >>
               /\ \A k \in 1..Len(ops') : ops'[k][1] \in {"getregs", "cont", "wait"}
               /\ breaks' = breaks
               /\ IsSome(inferior') => inferior' = inferior
               /\ pc' = "panicked" => panic' \in {"wait", "print_stop"}
               /\ panic' # "wait" =>
                      /\ IsSome(status')
                      /\ Unwrap(status').pid = Unwrap(inferior).pid
                      /\ Unwrap(status').st.kind \in {"Stopped", "Exited", "Signaled"}
                      /\ Unwrap(status').st.kind = "Stopped" =>
                             /\ Unwrap(status').st.rip = rip'
                             /\ Text(mem') = Text(mem) ]_vars

\* a continue from a stop that is at no breakpoint ran into an installed
\* breakpoint without any step
C12_Witness ==
    /\ CmdName = "Continue"
    /\ pc = "prompt"
    /\ step = None
    /\ IsSome(resumed)
    /\ InfAlive
    /\ DOMAIN BpMap # {}
    /\ IsSome(status)
    /\ Unwrap(status).st.kind = "Stopped"
    /\ Unwrap(status).st.sig = "SIGTRAP"

\* C13: quit always ends the command loop by returning, and once it has, no
\* traced process is left alive: an Inferior held at that point was killed
\* and waited for.
C13_QuitLeavesNoProcess ==
    CmdName = "Quit" =>
        /\ pc = "done"
        /\ \A p \in DOMAIN procs : procs[p] # "stopped"

\* C14: a breakpoint command given while an Inferior is held, whose patch of
\* target memory fails (write_byte made no write), is aborted with the
\* session still at its prompt: the address is recorded as pending, no
\* original byte is stored for it, and the Inferior is kept.
C14_PatchFailureAborts ==
    (CmdName = "BreakPoint" /\ IsSome(inferior) /\ ops # << >>
        /\ \A k \in 1..Len(ops) : ops[k][1] # "write")
    => /\ pc = "prompt"
       /\ Len(breaks) > 0
       /\ breaks[Len(breaks)] \notin DOMAIN BpMap

\* the word that holds byte address a: a rounded down to a multiple of 8
WordOf(a) == CHOOSE w \in {8 * n : n \in 0..(FarAddr \div 8)} : w <= a /\ a < w + 8

\* C15: write_byte(addr, val), for every offset of addr in its word and every
\* val, reads and writes only the word at addr rounded down to a multiple of
\* 8, sets the byte at addr to val, leaves the other seven bytes of the word
\* (and every other word) unchanged, and returns the byte that was at addr
\* before; at an unmapped address it fails and writes nothing.
C15_WriteByteTouchesOneByte ==
    \A k \in 1..Len(poke) :
        LET c == poke[k]
            word == WordOf(c.addr)
        IN IF word \in MappedWords
           THEN /\ c.res.ok
                /\ c.res.orig = c.before[word][c.addr - word + 1]
                /\ c.res.ops = << <<"read", word>>, <<"write", word, c.res.mem[word]>> >>
                /\ \A w \in MappedWords : \A i \in 1..WordSize :
                       c.res.mem[w][i] = IF w + i - 1 = c.addr THEN c.val ELSE c.before[w][i]
           ELSE /\ ~c.res.ok
                /\ c.res.mem = c.before
                /\ c.res.ops = << <<"read", word>> >>

\* the last byte of a word, a ret of the binary, was replaced by a zero byte,
\* and the trap opcode was then written over that zero byte
C15_Witness ==
    /\ \E k \in 1..Len(poke) :
           poke[k].addr = 23 /\ poke[k].val = 0 /\ poke[k].res.ok /\ poke[k].res.orig = 195
    /\ \E k \in 1..Len(poke) :
           poke[k].addr = 23 /\ poke[k].val = TrapOp /\ poke[k].res.ok /\ poke[k].res.orig = 0

\* the first occurrences of the values of s from position k on, in order
RECURSIVE Firsts(_, _)
Firsts(s, k) ==
    IF k > Len(s) THEN << >>
    ELSE (IF \E j \in 1..(k - 1) : s[j] = s[k] THEN << >> ELSE << s[k] >>) \o Firsts(s, k + 1)

\* C16: dedup never indexes outside the vector, and when it returns the
\* vector holds exactly one occurrence of each distinct value of the input,
\* in the order of their first occurrences.
C16_DedupKeepsFirstOccurrences ==
    /\ at # "panic"
    /\ at = "done" =>
           /\ vec = Firsts(given, 1)
           /\ \A j, k \in 1..Len(vec) : vec[j] = vec[k] => j = k
           /\ {vec[k] : k \in 1..Len(vec)} = {given[k] : k \in 1..Len(given)}

\* dedup returned on the vector of test_dedup
C16_Witness ==
    /\ at = "done"
    /\ given = <<3, 1, 0, 1, 4, 4>>
    /\ vec = <<3, 1, 0, 4>>
    /\ cnt = 2

\* C17: whenever the session awaits a command with a stopped Inferior,
\* memory at every installed breakpoint address holds the trap opcode: a
\* step-over that leaves the process stopped, on whatever signal, has
\* written the trap byte back before cont returned.
C17_ArmedAtPrompt ==
    (pc = "prompt" /\ InfAlive) => \A a \in DOMAIN BpMap : ByteAt(mem, a) = TrapOp

\* C18: when the single step of a step-over ends with the process Exited or
\* Signaled, cont returns that status at once: after the step and its wait
\* there is no memory write, no re-arm and no resume (the only write is the
\* restore before the step), and the session holds no Inferior afterwards.
C18_DeadAfterStepReturns ==
    (IsSome(step) /\ StepOf(step).kind \in {"Exited", "Signaled"}) =>
        /\ resumed = None
        /\ pc = "prompt"
        /\ inferior = None
        /\ IsSome(status)
        /\ Unwrap(status).st.kind = StepOf(step).kind
        /\ procs[Unwrap(status).pid] = "reaped"
        /\ Len(ops) >= 2
        /\ ops[Len(ops)] = <<"wait">>
        /\ ops[Len(ops) - 1] = <<"step">>
        /\ Cardinality({k \in 1..Len(ops) : ops[k][1] = "write"}) = 1
        /\ \A k \in 1..Len(ops) : ops[k][1] # "cont"

\* a continue stepped over the breakpoint at 24 and the process exited
\* during the step
C18_Witness ==
    /\ CmdName = "Continue"
    /\ IsSome(step)
    /\ StepOf(step).addr = 24
    /\ StepOf(step).kind = "Exited"
    /\ inferior = None
    /\ Len(breaks) > 0

\* C19: whenever the session is about to dispatch a command while holding
\* an Inferior, the process of that Inferior is alive and stopped under
\* trace: no handle to a process that exited, was signaled or was killed is
\* kept.
C19_HeldInferiorIsAlive ==
    (pc = "prompt" /\ IsSome(inferior)) => procs[Unwrap(inferior).pid] = "stopped"

\* C20: a spawn that fails after the process was created discards the
\* attempt: once run has reported the failure, the process it created is
\* not alive (stopped under trace).
C20_FailedSpawnDiscardsProcess ==
    (CmdName = "Run" /\ out # << >> /\ out[Len(out)] = "Error starting subprocess")
        => \A p \in DOMAIN procs :
               procs[p] = "stopped" => IsSome(inferior) /\ Unwrap(inferior).pid = p

\* the position in ops of the first operation that lets the process run
FirstRun == CHOOSE k \in 1..Len(ops) :
                /\ ops[k][1] \in {"cont", "step"}
                /\ \A j \in 1..(k - 1) : ops[j][1] \notin {"cont", "step"}

\* C21: in a run command that resumes the new process, every recorded
\* breakpoint address has been patched with the trap opcode before the first
\* operation that lets the process run, no write comes after it, and no
\* installed breakpoint is unarmed at that first resume.
C21_InstalledBeforeFirstResume ==
    (CmdName = "Run" /\ IsSome(resumed)) =>
        /\ Unwrap(resumed) = {}
        /\ ops[FirstRun] = <<"cont">>
        /\ \A k \in 1..Len(ops) : ops[k][1] = "write" => k < FirstRun
        /\ \A i \in 1..Len(breaks) :
               \E k \in 1..(FirstRun - 1) :
                   /\ ops[k][1] = "write"
                   /\ ops[k][2] = align_addr_to_word(breaks[i])
                   /\ ops[k][3][breaks[i] - ops[k][2] + 1] = TrapOp

\* a run with two different breakpoints recorded resumed the process, which
\* stopped at one of them
C21_Witness ==
    /\ CmdName = "Run"
    /\ IsSome(resumed)
    /\ Len(breaks) = 2
    /\ breaks[1] # breaks[2]
    /\ InfAlive
    /\ IsSome(status)
    /\ Unwrap(status).st.sig = "SIGTRAP"

\* C22: the list of recorded addresses never loses an entry; and whenever
\* the session holds an Inferior (and has not panicked), the addresses with
\* a stored original byte are exactly the recorded addresses, for an
\* Inferior made by run as for one that was there before.
C22_RecordedPersistInstalledPerInferior ==
    [][ /\ Len(breaks') >= Len(breaks)
        /\ SubSeq(breaks', 1, Len(breaks)) = breaks
        /\ (pc' # "panicked" /\ IsSome(inferior')) =>
               DOMAIN Unwrap(inferior').bp_map = {breaks'[i] : i \in 1..Len(breaks')} ]_vars

\* the second Inferior of the session holds an original byte for both
\* addresses recorded before it was made
C22_Witness ==
    /\ InfAlive
    /\ Unwrap(inferior).pid = 2
    /\ CmdName = "Run"
    /\ Len(breaks) = 2
    /\ DOMAIN BpMap = {20, 24}

\* C23: backtrace terminates for every stopped process.  The process is
\* stopped and the walk is deterministic, so a walk that comes to a program
\* counter and frame base it has printed before repeats forever: a walk that
\* terminates never prints the same program counter and frame base twice.
C23_WalkNeverRevisits ==
    pc = "bt" =>
        \A i, j \in 1..Len(frames) :
            (frames[i].rip = frames[j].rip /\ frames[i].rbp = frames[j].rbp) => i = j

\* C24: cont steps back over the breakpoint at rip - 1 only when the stop
\* before it was the trap of that breakpoint: a continue right after a stop
\* on another signal, wherever the process stands, makes no step.
C24_RewindOnlyAfterTrap ==
    [][ (pc = "prompt" /\ InfAlive /\ IsSome(status)
            /\ Unwrap(status).st.kind = "Stopped" /\ Unwrap(status).st.sig # "SIGTRAP"
            /\ cmd' = <<"Continue">>)
            => step' = None ]_vars

\* C25: when pick_known_alive_upstream finds every upstream marked dead and
\* returns None, the client is answered 502 Bad Gateway and the proxy goes
\* on accepting connections.
C25_NoUpstreamAnswers502 ==
    picked = << None >> => (hpc \notin {"panicked", "exited"} /\ reply = 502)

\* C26: after every step of the connection handler and of the health check,
\* the stored alive count is the number of upstreams whose flag is true and
\* lies in 0..NumUpstreams; pick_known_alive_upstream returns only an index
\* whose flag is true, and returns None exactly when the count is 0.
C26_AliveCountMatchesFlags ==
    [][ /\ upstream_alives'[1] = Cardinality({i \in Upstreams : upstream_alives'[2][i + 1]})
        /\ upstream_alives'[1] \in 0..NumUpstreams
        /\ (hpc = "picking" /\ hpc' = "connect") =>
               /\ upstream_alives[2][upstream_idx' + 1]
               /\ picked' = << Some(upstream_idx') >>
               /\ upstream_alives[1] > 0
        /\ (hpc = "picking" /\ hpc' # "picking") =>
               (picked' = << None >> <=> upstream_alives[1] = 0) ]_vars

\* the handler picked the one upstream still marked alive while the health
\* check is about to mark an upstream dead
C26_Witness ==
    /\ upstream_alives = <<1, <<FALSE, TRUE>> >>
    /\ hpc = "connect"
    /\ picked = << Some(1) >>
    /\ hc = "dead"

Mapped ==
    /\ output_len = Len(input_vec)
    /\ \A i \in 1..Len(input_vec) : output_vec[i] = f(elem, input_vec[i])

\* C28: parallel_map terminates and maps.  With num_threads >= 1 and every
\* thread scheduled in the end, under every interleaving of the workers
\* the call returns, and the vector it returns has the length of the input
\* and holds f(input_vec[i]) at every index i.
C28_TerminatesWithMappedVector ==
    /\ <>(mpc = "returned")
    /\ [](mpc = "returned" => Mapped)

====
